---- MODULE Spec2Model ----
(***************************************************************************)
(* Link crawler of rachev3/scrapersDemo.                                   *)
(*                                                                         *)
(* Two programs of the repository are modelled:                            *)
(*   - src/playwrightLinksCrawler.ts, the links crawler (host filter       *)
(*     only);                                                              *)
(*   - the crawler listed in README.md lines 55-302, which adds path       *)
(*     prefixes, scope tokens and the asset classifier.                    *)
(* Both hand a requestHandler to crawlee's PlaywrightCrawler; the crawler  *)
(* (request queue, worker pool, request ceiling) is the environment.       *)
(*                                                                         *)
(* Strings are TLA+ strings, read character by character with Len and      *)
(* SubSeq.                                                                 *)
(***************************************************************************)
EXTENDS Integers, Sequences, FiniteSets, TLC

\* ------------------------------------------------------------------------
\* JavaScript string primitives
\* ------------------------------------------------------------------------

UpperChars == "ABCDEFGHIJKLMNOPQRSTUVWXYZ"

LowerChars == "abcdefghijklmnopqrstuvwxyz"

Digits == "0123456789"

\* Printable ASCII in code-unit order (the grave accent, which no URL here
\* uses, is left out: only the order of the characters matters to sort()).
AsciiChars == " !\"#$%&'()*+,-./0123456789:;<=>?@ABCDEFGHIJKLMNOPQRSTUVWXYZ[\\]^_abcdefghijklmnopqrstuvwxyz{|}~"

CharAt(s, i) == SubSeq(s, i, i)

RECURSIVE IndexFrom(_, _, _)
IndexFrom(s, c, i) ==
    IF i > Len(s) THEN 0
    ELSE IF CharAt(s, i) = c THEN i
    ELSE IndexFrom(s, c, i + 1)

\* String.prototype.indexOf for a one-character needle; 0 when absent.
IndexOf(s, c) == IndexFrom(s, c, 1)

AsciiSet == {CharAt(AsciiChars, i) : i \in 1..Len(AsciiChars)}

\* The rank of a printable ASCII character in code-unit order.
CharCode == [c \in AsciiSet |-> IndexOf(AsciiChars, c)]

StartsWith(s, p) == Len(p) <= Len(s) /\ SubSeq(s, 1, Len(p)) = p

EndsWith(s, e) == Len(e) <= Len(s) /\ SubSeq(s, Len(s) - Len(e) + 1, Len(s)) = e

Includes(s, t) ==
    \E i \in 1..(Len(s) - Len(t) + 1) : SubSeq(s, i, i + Len(t) - 1) = t

LowerChar ==
    [c \in AsciiSet |->
        IF IndexOf(UpperChars, c) > 0 THEN CharAt(LowerChars, IndexOf(UpperChars, c)) ELSE c]

RECURSIVE toLowerCase(_)
toLowerCase(s) ==
    IF s = "" THEN ""
    ELSE LowerChar[CharAt(s, 1)] \o toLowerCase(SubSeq(s, 2, Len(s)))

RECURSIVE TrimStart(_)
TrimStart(s) ==
    IF s # "" /\ CharAt(s, 1) = " " THEN TrimStart(SubSeq(s, 2, Len(s))) ELSE s

RECURSIVE TrimEnd(_)
TrimEnd(s) ==
    IF s # "" /\ CharAt(s, Len(s)) = " " THEN TrimEnd(SubSeq(s, 1, Len(s) - 1)) ELSE s

trim(s) == TrimEnd(TrimStart(s))

\* s.split(c)[0]
SplitFirst(s, c) == IF IndexOf(s, c) = 0 THEN s ELSE SubSeq(s, 1, IndexOf(s, c) - 1)

\* The part of s after the first c ("" when c is absent).
AfterFirst(s, c) == IF IndexOf(s, c) = 0 THEN "" ELSE SubSeq(s, IndexOf(s, c) + 1, Len(s))

\* From the first c on, c included ("" when c is absent).
FromFirst(s, c) == IF IndexOf(s, c) = 0 THEN "" ELSE SubSeq(s, IndexOf(s, c), Len(s))

RECURSIVE StripLeading(_, _)
StripLeading(s, c) ==
    IF s # "" /\ CharAt(s, 1) = c THEN StripLeading(SubSeq(s, 2, Len(s)), c) ELSE s

\* p.split("/").filter(Boolean)[0] ?? ""
FirstSegment(p) == SplitFirst(StripLeading(p, "/"), "/")

\* a < b in code-unit order, the order of Array.prototype.sort() on strings.
RECURSIVE StringLess(_, _)
StringLess(a, b) ==
    IF b = "" THEN FALSE
    ELSE IF a = "" THEN TRUE
    ELSE IF CharAt(a, 1) = CharAt(b, 1)
         THEN StringLess(SubSeq(a, 2, Len(a)), SubSeq(b, 2, Len(b)))
         ELSE CharCode[CharAt(a, 1)] < CharCode[CharAt(b, 1)]

RECURSIVE SortStrings(_)
SortStrings(S) ==
    IF S = {} THEN <<>>
    ELSE LET least == CHOOSE x \in S : \A y \in S \ {x} : StringLess(x, y)
         IN  <<least>> \o SortStrings(S \ {least})

Range(seq) == {seq[i] : i \in 1..Len(seq)}

\* sort() left out: the array keeps the Set's insertion order.
sort_InsertionOrder(arr) == arr

\* Array.prototype.sort() on an array of distinct strings.
sort(arr) == SortStrings(Range(arr))

\* Set.prototype.add: a new value goes last in iteration order.
SetAdd(values, v) == IF v \in Range(values) THEN values ELSE Append(values, v)

\* ------------------------------------------------------------------------
\* new URL(s): the WHATWG parser for  scheme ":" ["//" host] path ["?" query]
\* ["#" fragment].  Covered: scheme and host lower-casing, the empty path of
\* a special scheme becoming "/", failure without a scheme or without a host,
\* opaque paths of non-special schemes.  Not covered: userinfo, ports,
\* percent-encoding, dot segments, backslashes (no input here uses them).
\* ------------------------------------------------------------------------

\* JavaScript null (a URL without fragment, a rejected request).
null == "<null>"

SpecialSchemes == {"http", "https", "ftp", "ws", "wss"}

SchemeChars == LowerChars \o UpperChars \o Digits \o "+-."

HostChars == LowerChars \o UpperChars \o Digits \o "-."

ValidScheme(s) ==
    /\ s # ""
    /\ IndexOf(LowerChars \o UpperChars, CharAt(s, 1)) > 0
    /\ \A i \in 1..Len(s) : IndexOf(SchemeChars, CharAt(s, i)) > 0

ValidHost(h) ==
    /\ h # ""
    /\ \A i \in 1..Len(h) : IndexOf(HostChars, CharAt(h, i)) > 0

FailedURL ==
    [ok |-> FALSE, protocol |-> "", hasHost |-> FALSE, hostname |-> "",
     pathname |-> "", search |-> "", fragment |-> null]

NewURL(input) ==
    LET s        == trim(input)
        colon    == IndexOf(s, ":")
        scheme   == toLowerCase(SubSeq(s, 1, colon - 1))
        rest     == SubSeq(s, colon + 1, Len(s))
        fragment == IF IndexOf(rest, "#") = 0 THEN null ELSE AfterFirst(rest, "#")
        noFrag   == SplitFirst(rest, "#")
        query    == FromFirst(noFrag, "?")
        search   == IF query = "?" THEN "" ELSE query
        hier     == SplitFirst(noFrag, "?")
    IN  IF colon = 0 \/ ~ValidScheme(SubSeq(s, 1, colon - 1)) THEN FailedURL
        ELSE IF scheme \in SpecialSchemes
        THEN LET afterSlashes == StripLeading(hier, "/")
                 authority    == SplitFirst(afterSlashes, "/")
                 path         == FromFirst(afterSlashes, "/")
             IN  IF ~ValidHost(authority) THEN FailedURL
                 ELSE [ok |-> TRUE, protocol |-> scheme \o ":", hasHost |-> TRUE,
                       hostname |-> toLowerCase(authority),
                       pathname |-> IF path = "" THEN "/" ELSE path,
                       search |-> search, fragment |-> fragment]
        ELSE IF StartsWith(hier, "//")
        THEN LET afterSlashes == SubSeq(hier, 3, Len(hier))
             IN  [ok |-> TRUE, protocol |-> scheme \o ":", hasHost |-> TRUE,
                  hostname |-> SplitFirst(afterSlashes, "/"),
                  pathname |-> FromFirst(afterSlashes, "/"),
                  search |-> search, fragment |-> fragment]
        ELSE [ok |-> TRUE, protocol |-> scheme \o ":", hasHost |-> FALSE,
              hostname |-> "", pathname |-> hier,
              search |-> search, fragment |-> fragment]

\* URL.prototype.href: the serialisation of a parsed URL.
Href(u) ==
    u.protocol \o (IF u.hasHost THEN "//" \o u.hostname ELSE "") \o u.pathname
        \o u.search \o (IF u.fragment = null THEN "" ELSE "#" \o u.fragment)

\* u.hash = ""
ClearHash(u) == [u EXCEPT !.fragment = null]

\* ------------------------------------------------------------------------
\* The crawled site: the anchors (href attributes, in document order) of every
\* page that can be navigated.  A URL that is no key of Site fails to load.
\* ------------------------------------------------------------------------

Site ==
    [u \in {"https://example.com/", "https://example.com/dubai/",
            "https://example.com/dubai/villas", "https://example.com/sharjah/villas",
            "https://example.com/Dubai/", "https://other.com/dubai/"} |->
        CASE u = "https://example.com/" ->
                <<"/dubai/", "data:text/plain,hi", "HTTPS://Example.com/about#team",
                  "/logo.svg">>
          [] u = "https://example.com/dubai/" ->
                <<"/dubai/villas#gallery", "javascript:void(0)", "https://",
                  "https://example.com/sharjah/villas", "/downloads/dubai-brochure.pdf",
                  "ftp://example.com/dubai/files", "https://other.com/dubai/">>
          [] u = "https://example.com/dubai/villas" ->
                <<"mailto:sales@example.com", "/downloads/sharjah-brochure.pdf", "#top",
                  "/Dubai/">>
          [] u = "https://example.com/sharjah/villas" ->
                <<"tel:+97144", "/sharjah/map.png">>
          [] u = "https://example.com/Dubai/" ->
                <<"/Dubai/Plan.PDF", "/dubai/">>
          [] u = "https://other.com/dubai/" ->
                <<"https://example.com/dubai/villas">>]

\* The seed lists a run may be started with (process.argv / START_URL).
SeedLists ==
    {<<"https://example.com/dubai/">>,
     <<"https://example.com/">>,
     <<"https://example.com/", "https://example.com/dubai/">>,
     <<"https://example.com/Dubai/">>,
     <<"https://example.com/dubai/", "https://example.com/sharjah/villas">>,
     <<"https://example.com/dubai/", "https://other.com/dubai/">>}

\* HTMLAnchorElement.href: the attribute resolved against the page's URL and
\* serialised; an attribute that does not parse is returned as written.
AnchorHref(pageUrl, attr) ==
    LET base == NewURL(pageUrl)
        resolved ==
            IF StartsWith(attr, "/") /\ ~StartsWith(attr, "//")
            THEN base.protocol \o "//" \o base.hostname \o attr
            ELSE IF StartsWith(attr, "#")
            THEN Href(ClearHash(base)) \o attr
            ELSE attr
    IN  IF NewURL(resolved).ok THEN Href(NewURL(resolved)) ELSE attr

NonEmpty(s) == s # ""

\* page.$$eval("a[href]", ...) on every page of the site: the href of every
\* anchor, empty results filtered out.
SitePageLinks ==
    [u \in DOMAIN Site |->
        SelectSeq([i \in 1..Len(Site[u]) |-> AnchorHref(u, Site[u][i])], NonEmpty)]

\* The strings the crawlers hand to new URL() on this site, and their parses.
SiteHrefs ==
    LET hrefs == UNION {Range(SitePageLinks[u]) : u \in DOMAIN Site}
                    \cup UNION {Range(seeds) : seeds \in SeedLists}
    IN  hrefs \cup {SplitFirst(h, "#") : h \in hrefs}

SiteURLs == [h \in SiteHrefs |-> NewURL(h)]

\* MAX_REQUESTS_PER_CRAWL ranges over 1..MaxRequestsBound.
MaxRequestsBound == 3

\* MAX_CONCURRENCY ranges over 1..MaxConcurrencyBound.
MaxConcurrencyBound == 2

VARIABLES
    startUrls,              \* parseStartUrls()
    sameDomainOnly,         \* SAME_DOMAIN_ONLY
    maxRequestsPerCrawl,    \* MAX_REQUESTS_PER_CRAWL
    maxConcurrency,         \* MAX_CONCURRENCY
    allowedHostnames,       \* Set<string>
    hostnameToPrefixes,     \* Map<string, string[]>   (README crawler)
    hostnameToScopeTokens,  \* Map<string, Set<string>> (README crawler)
    discoveredLinks,        \* Set<string>, as the sequence of its values in insertion order
    linksArray,             \* main's sorted snapshot, null before it is taken
    mainPc,                 \* "run": main awaits crawler.run; "done": after the sort
    crawlerState,           \* "running" | "finished": has crawler.run resolved
    requestQueue,           \* the crawler's pending requests, first in first out
    uniqueKeys,             \* every URL ever added to the request queue
    handledRequestsCount,   \* requests finished, handled or failed
    inFlight,               \* the requestHandler calls running: [url, pc, accepted]
    runNumber,              \* 1, or 2 when main has been started a second time
    rendered,               \* the site as the browser renders it: SitePageLinks, fixed
    urlObjects,             \* the URL objects of the site's strings: SiteURLs, fixed
    firstRun                \* what the first run left: [linksArray, requestQueue]; null during it

config == <<startUrls, sameDomainOnly, maxRequestsPerCrawl, maxConcurrency>>

tables == <<allowedHostnames, hostnameToPrefixes, hostnameToScopeTokens>>

site == <<rendered, urlObjects>>

\* What page.$$eval returns on a page.
pageLinks(pageUrl) == rendered[pageUrl]

\* new URL(input); ok is FALSE where the constructor throws.
ParseURL(input) == IF input \in DOMAIN urlObjects THEN urlObjects[input] ELSE NewURL(input)

engine == <<crawlerState, requestQueue, uniqueKeys, handledRequestsCount, inFlight>>

vars ==
    <<config, tables, discoveredLinks, linksArray, mainPc, engine, runNumber, firstRun,
      site>>

\* ------------------------------------------------------------------------
\* Helpers of both crawlers
\* ------------------------------------------------------------------------

getAllowedHostnames(urls) ==
    {ParseURL(urls[i]).hostname : i \in {j \in 1..Len(urls) : ParseURL(urls[j]).ok}}

isSkippableScheme(href) ==
    LET lower == toLowerCase(href)
    IN  \/ StartsWith(lower, "javascript:")
        \/ StartsWith(lower, "mailto:")
        \/ StartsWith(lower, "tel:")
        \/ StartsWith(lower, "data:")

\* ------------------------------------------------------------------------
\* Helpers of the README crawler
\* ------------------------------------------------------------------------

\* normalizePathPrefix without the endsWith("/") line.
normalizePathPrefix_NoTrailingSlash(pathname) ==
    IF pathname = "" THEN "/"
    ELSE LET p1 == trim(pathname)
         IN  IF ~StartsWith(p1, "/") THEN "/" \o p1 ELSE p1

normalizePathPrefix(pathname) ==
    IF pathname = "" THEN "/"
    ELSE LET p1 == trim(pathname)
             p2 == IF ~StartsWith(p1, "/") THEN "/" \o p1 ELSE p1
         IN  IF ~EndsWith(p2, "/") THEN p2 \o "/" ELSE p2

MapSet(map, key, value) ==
    [k \in DOMAIN map \cup {key} |-> IF k = key THEN value ELSE map[k]]

EmptyMap == [k \in {} |-> <<>>]

RECURSIVE PathPrefixesFrom(_, _)
PathPrefixesFrom(urls, map) ==
    IF urls = <<>> THEN map
    ELSE LET u == ParseURL(Head(urls))
         IN  IF ~u.ok THEN PathPrefixesFrom(Tail(urls), map)
             ELSE LET prefix == normalizePathPrefix(IF u.pathname = "" THEN "/" ELSE u.pathname)
                      arr    == IF u.hostname \in DOMAIN map THEN map[u.hostname] ELSE <<>>
                      arr2   == IF prefix \in Range(arr) THEN arr ELSE Append(arr, prefix)
                  IN  PathPrefixesFrom(Tail(urls), MapSet(map, u.hostname, arr2))

getHostnameToPathPrefixes(urls) == PathPrefixesFrom(urls, EmptyMap)

getHostnameToScopeTokens(hostPrefixes) ==
    [host \in DOMAIN hostPrefixes |->
        {toLowerCase(FirstSegment(hostPrefixes[host][i])) :
            i \in {j \in 1..Len(hostPrefixes[host]) : FirstSegment(hostPrefixes[host][j]) # ""}}]

nonHtmlExts ==
    {".pdf", ".doc", ".docx", ".xls", ".xlsx", ".csv", ".zip", ".rar", ".7z", ".jpg",
     ".jpeg", ".png", ".gif", ".webp", ".svg", ".mp4", ".mov", ".avi", ".mp3", ".wav",
     ".m4a"}

isLikelyBinaryAsset(pathname) ==
    LET lower == toLowerCase(pathname)
    IN  \E ext \in nonHtmlExts : EndsWith(lower, ext)

\* isInScope with prefixes.every in place of prefixes.some.
isInScope_EveryPrefix(urlObj, sameDomain, allowed, hostPrefixes) ==
    IF sameDomain /\ urlObj.hostname \notin allowed THEN FALSE
    ELSE IF urlObj.hostname \in DOMAIN hostPrefixes /\ Len(hostPrefixes[urlObj.hostname]) > 0
    THEN LET prefixes       == hostPrefixes[urlObj.hostname]
             normalizedPath == normalizePathPrefix(IF urlObj.pathname = "" THEN "/"
                                                   ELSE urlObj.pathname)
         IN  \A i \in 1..Len(prefixes) : StartsWith(normalizedPath, prefixes[i])
    ELSE TRUE

isInScope(urlObj, sameDomain, allowed, hostPrefixes) ==
    IF sameDomain /\ urlObj.hostname \notin allowed THEN FALSE
    ELSE IF urlObj.hostname \in DOMAIN hostPrefixes /\ Len(hostPrefixes[urlObj.hostname]) > 0
    THEN LET prefixes       == hostPrefixes[urlObj.hostname]
             normalizedPath == normalizePathPrefix(IF urlObj.pathname = "" THEN "/"
                                                   ELSE urlObj.pathname)
         IN  \E i \in 1..Len(prefixes) : StartsWith(normalizedPath, prefixes[i])
    ELSE TRUE

\* assetMatchesScope matching the token as the first path segment (startsWith)
\* in place of lowerPath.includes(t).
assetMatchesScope_StartsWith(urlObj, hostScopeTokens) ==
    IF urlObj.hostname \notin DOMAIN hostScopeTokens \/ hostScopeTokens[urlObj.hostname] = {}
    THEN TRUE
    ELSE LET lowerPath == toLowerCase(urlObj.pathname)
         IN  \E t \in hostScopeTokens[urlObj.hostname] : StartsWith(lowerPath, "/" \o t)

assetMatchesScope(urlObj, hostScopeTokens) ==
    IF urlObj.hostname \notin DOMAIN hostScopeTokens \/ hostScopeTokens[urlObj.hostname] = {}
    THEN TRUE
    ELSE LET lowerPath == toLowerCase(urlObj.pathname)
         IN  \E t \in hostScopeTokens[urlObj.hostname] : Includes(lowerPath, t)

\* ------------------------------------------------------------------------
\* requestHandler of src/playwrightLinksCrawler.ts
\* ------------------------------------------------------------------------

\* The loop without its try/catch: new URL() throwing ends the loop, the links
\* after the malformed href are not processed.
RECURSIVE linksRequestHandlerLoop_NoCatch(_, _)
linksRequestHandlerLoop_NoCatch(links, discovered) ==
    IF links = <<>> THEN discovered
    ELSE LET href == Head(links)
             rest == Tail(links)
         IN  IF isSkippableScheme(href) THEN linksRequestHandlerLoop_NoCatch(rest, discovered)
             ELSE IF ~ParseURL(href).ok THEN discovered
             ELSE LET absolute == SplitFirst(Href(ParseURL(href)), "#")
                  IN  IF sameDomainOnly /\ ~ParseURL(absolute).ok THEN discovered
                      ELSE IF sameDomainOnly
                              /\ ParseURL(absolute).hostname \notin allowedHostnames
                      THEN linksRequestHandlerLoop_NoCatch(rest, discovered)
                      ELSE linksRequestHandlerLoop_NoCatch(rest, SetAdd(discovered, absolute))

\* for (const href of pageLinks) { ... }: discoveredLinks after the loop.
RECURSIVE linksRequestHandlerLoop(_, _)
linksRequestHandlerLoop(links, discovered) ==
    IF links = <<>> THEN discovered
    ELSE LET href == Head(links)
             rest == Tail(links)
         IN  IF isSkippableScheme(href) THEN linksRequestHandlerLoop(rest, discovered)
             ELSE IF ~ParseURL(href).ok
             THEN linksRequestHandlerLoop(rest, discovered)      \* catch: ignore malformed
             ELSE LET absolute == SplitFirst(Href(ParseURL(href)), "#")
                  IN  IF sameDomainOnly /\ ~ParseURL(absolute).ok
                      THEN linksRequestHandlerLoop(rest, discovered)      \* catch
                      ELSE IF sameDomainOnly
                              /\ ParseURL(absolute).hostname \notin allowedHostnames
                      THEN linksRequestHandlerLoop(rest, discovered)      \* continue
                      ELSE linksRequestHandlerLoop(rest, SetAdd(discovered, absolute))

\* transformRequestFunction(req): the request's new url, or null.
linksTransformRequestFunction(reqUrl) ==
    LET parsed == ParseURL(reqUrl)
        u      == ClearHash(parsed)
    IN  IF ~parsed.ok THEN null
        ELSE IF u.protocol # "http:" /\ u.protocol # "https:" THEN null
        ELSE IF sameDomainOnly /\ u.hostname \notin allowedHostnames THEN null
        ELSE Href(u)

\* ------------------------------------------------------------------------
\* requestHandler of the README crawler
\* ------------------------------------------------------------------------

RECURSIVE requestHandlerLoop(_, _)
requestHandlerLoop(links, discovered) ==
    IF links = <<>> THEN discovered
    ELSE LET href == Head(links)
             rest == Tail(links)
         IN  IF isSkippableScheme(href) THEN requestHandlerLoop(rest, discovered)
             ELSE IF ~ParseURL(href).ok
             THEN requestHandlerLoop(rest, discovered)           \* catch: ignore malformed
             ELSE LET absolute == SplitFirst(Href(ParseURL(href)), "#")
                      u        == ParseURL(absolute)
                  IN  IF ~u.ok THEN requestHandlerLoop(rest, discovered)      \* catch
                      ELSE LET isAsset    == isLikelyBinaryAsset(u.pathname)
                               withinHost == ~sameDomainOnly \/ u.hostname \in allowedHostnames
                               add ==
                                   IF isAsset
                                   THEN withinHost /\ assetMatchesScope(u, hostnameToScopeTokens)
                                   ELSE isInScope(u, sameDomainOnly, allowedHostnames,
                                                  hostnameToPrefixes)
                           IN  requestHandlerLoop(rest,
                                   IF add THEN SetAdd(discovered, Href(u)) ELSE discovered)

transformRequestFunction(reqUrl) ==
    LET parsed == ParseURL(reqUrl)
        u      == ClearHash(parsed)
    IN  IF ~parsed.ok THEN null
        ELSE IF u.protocol # "http:" /\ u.protocol # "https:" THEN null
        ELSE IF ~isInScope(u, sameDomainOnly, allowedHostnames, hostnameToPrefixes) THEN null
        ELSE IF isLikelyBinaryAsset(u.pathname) THEN null
        ELSE Href(u)

\* ------------------------------------------------------------------------
\* enqueueLinks({strategy, selector, transformRequestFunction})
\* ------------------------------------------------------------------------

NotNull(s) == s # null

\* The requests transformRequestFunction keeps, in document order.
linksTransformed(links) ==
    SelectSeq([i \in 1..Len(links) |-> linksTransformRequestFunction(links[i])], NotNull)

transformed(links) ==
    SelectSeq([i \in 1..Len(links) |-> transformRequestFunction(links[i])], NotNull)

\* strategy: sameDomainOnly ? "same-hostname" : "all"
EnqueueStrategy(pageUrl, url) ==
    ~sameDomainOnly \/ ParseURL(url).hostname = ParseURL(pageUrl).hostname

\* The request queue after adding the urls that pass the strategy and were
\* never added before.
RECURSIVE AddRequests(_, _, _, _)
AddRequests(pageUrl, urls, queue, keys) ==
    IF urls = <<>> THEN [queue |-> queue, keys |-> keys]
    ELSE IF EnqueueStrategy(pageUrl, Head(urls)) /\ Head(urls) \notin keys
    THEN AddRequests(pageUrl, Tail(urls), Append(queue, Head(urls)), keys \cup {Head(urls)})
    ELSE AddRequests(pageUrl, Tail(urls), queue, keys)

\* crawler.run(startUrls): the start urls enter the request queue unfiltered.
RECURSIVE Dedup(_, _)
Dedup(urls, seen) ==
    IF urls = <<>> THEN <<>>
    ELSE IF Head(urls) \in seen THEN Dedup(Tail(urls), seen)
    ELSE <<Head(urls)>> \o Dedup(Tail(urls), seen \cup {Head(urls)})

\* ------------------------------------------------------------------------
\* main() up to crawler.run(startUrls)
\* ------------------------------------------------------------------------

InitRun(seeds, flag, maxRequests, maxConc) ==
    /\ startUrls = seeds
    /\ sameDomainOnly = flag
    /\ maxRequestsPerCrawl = maxRequests
    /\ maxConcurrency = maxConc
    /\ allowedHostnames = getAllowedHostnames(seeds)
    /\ discoveredLinks = <<>>
    /\ linksArray = null
    /\ mainPc = "run"
    /\ crawlerState = "running"
    /\ requestQueue = Dedup(seeds, {})
    /\ uniqueKeys = Range(seeds)
    /\ handledRequestsCount = 0
    /\ inFlight = {}

Configs ==
    SeedLists \X BOOLEAN \X (1..MaxRequestsBound) \X (1..MaxConcurrencyBound)

\* src/playwrightLinksCrawler.ts keeps no prefix or token table.
Init ==
    /\ rendered = SitePageLinks
    /\ urlObjects = SiteURLs
    /\ \E c \in Configs : InitRun(c[1], c[2], c[3], c[4])
    /\ hostnameToPrefixes = EmptyMap
    /\ hostnameToScopeTokens = EmptyMap
    /\ runNumber = 1
    /\ firstRun = null

InitReadme ==
    /\ rendered = SitePageLinks
    /\ urlObjects = SiteURLs
    /\ \E c \in Configs : InitRun(c[1], c[2], c[3], c[4])
    /\ hostnameToPrefixes = getHostnameToPathPrefixes(startUrls)
    /\ hostnameToScopeTokens = getHostnameToScopeTokens(hostnameToPrefixes)
    /\ runNumber = 1
    /\ firstRun = null

\* ------------------------------------------------------------------------
\* The crawler (crawlee's PlaywrightCrawler) as configured by main
\* ------------------------------------------------------------------------

\* A worker is free and the request ceiling is not reached.
TaskReady ==
    /\ crawlerState = "running"
    /\ requestQueue # <<>>
    /\ Cardinality(inFlight) < maxConcurrency
    /\ handledRequestsCount < maxRequestsPerCrawl

\* The next request loads: the crawler calls requestHandler, which awaits
\* page.waitForLoadState and page.$$eval.
StartRequest ==
    /\ TaskReady
    /\ Head(requestQueue) \in DOMAIN Site
    /\ inFlight' = inFlight \cup {[url |-> Head(requestQueue), pc |-> "eval", accepted |-> <<>>]}
    /\ requestQueue' = Tail(requestQueue)
    /\ UNCHANGED <<site, config, tables, discoveredLinks, linksArray, mainPc, crawlerState,
                   uniqueKeys, handledRequestsCount, runNumber, firstRun>>

\* The next request fails to load: failedRequestHandler, no requestHandler call.
FailedRequest ==
    /\ TaskReady
    /\ Head(requestQueue) \notin DOMAIN Site
    /\ requestQueue' = Tail(requestQueue)
    /\ handledRequestsCount' = handledRequestsCount + 1
    /\ UNCHANGED <<site, config, tables, discoveredLinks, linksArray, mainPc, crawlerState,
                   uniqueKeys, inFlight, runNumber, firstRun>>

\* src/playwrightLinksCrawler.ts: $$eval resolves; the loop over pageLinks runs
\* to its end without yielding, then enqueueLinks is called and awaited.
LinksRequestHandler(r) ==
    /\ r \in inFlight
    /\ r.pc = "eval"
    /\ discoveredLinks' = linksRequestHandlerLoop(pageLinks(r.url), discoveredLinks)
    /\ inFlight' = (inFlight \ {r}) \cup
            {[r EXCEPT !.pc = "enqueueLinks", !.accepted = linksTransformed(pageLinks(r.url))]}
    /\ UNCHANGED <<site, config, tables, linksArray, mainPc, crawlerState, requestQueue,
                   uniqueKeys, handledRequestsCount, runNumber, firstRun>>

\* The README crawler's requestHandler, same steps.
RequestHandler(r) ==
    /\ r \in inFlight
    /\ r.pc = "eval"
    /\ discoveredLinks' = requestHandlerLoop(pageLinks(r.url), discoveredLinks)
    /\ inFlight' = (inFlight \ {r}) \cup
            {[r EXCEPT !.pc = "enqueueLinks", !.accepted = transformed(pageLinks(r.url))]}
    /\ UNCHANGED <<site, config, tables, linksArray, mainPc, crawlerState, requestQueue,
                   uniqueKeys, handledRequestsCount, runNumber, firstRun>>

\* enqueueLinks resolves: the kept requests are in the queue, requestHandler
\* returns and the request counts as handled.
EnqueueLinks(r) ==
    /\ r \in inFlight
    /\ r.pc = "enqueueLinks"
    /\ LET added == AddRequests(r.url, r.accepted, requestQueue, uniqueKeys)
       IN  /\ requestQueue' = added.queue
           /\ uniqueKeys' = added.keys
    /\ inFlight' = inFlight \ {r}
    /\ handledRequestsCount' = handledRequestsCount + 1
    /\ UNCHANGED <<site, config, tables, discoveredLinks, linksArray, mainPc, crawlerState,
                   runNumber, firstRun>>

\* crawler.run resolves: nothing is running, and the queue is empty or the
\* request ceiling is reached.
RunFinished ==
    /\ crawlerState = "running"
    /\ inFlight = {}
    /\ requestQueue = <<>> \/ handledRequestsCount >= maxRequestsPerCrawl
    /\ crawlerState' = "finished"
    /\ UNCHANGED <<site, config, tables, discoveredLinks, linksArray, mainPc, requestQueue,
                   uniqueKeys, handledRequestsCount, inFlight, runNumber, firstRun>>

\* ------------------------------------------------------------------------
\* main() after crawler.run
\* ------------------------------------------------------------------------

\* crawler.run(startUrls) without await: main goes on at once.
RunAwaited_NoAwait == TRUE

\* await crawler.run(startUrls): main goes on once the run has resolved.
RunAwaited == crawlerState = "finished"

\* const linksArray = [...discoveredLinks].sort()
Snapshot ==
    /\ mainPc = "run"
    /\ RunAwaited
    /\ linksArray' = sort(discoveredLinks)
    /\ mainPc' = "done"
    /\ UNCHANGED <<site, config, tables, discoveredLinks, engine, runNumber, firstRun>>

\* The program is started a second time with the same arguments and
\* environment, against the same site.
MainAgain ==
    /\ mainPc = "done"
    /\ crawlerState = "finished"
    /\ inFlight = {}
    /\ runNumber = 1
    /\ runNumber' = 2
    /\ firstRun' = [linksArray |-> linksArray, requestQueue |-> requestQueue]
    /\ discoveredLinks' = <<>>
    /\ linksArray' = null
    /\ mainPc' = "run"
    /\ crawlerState' = "running"
    /\ requestQueue' = Dedup(startUrls, {})
    /\ uniqueKeys' = Range(startUrls)
    /\ handledRequestsCount' = 0
    /\ UNCHANGED <<site, config, tables, inFlight>>

Crawler == StartRequest \/ FailedRequest \/ RunFinished

Next ==
    \/ Crawler
    \/ \E r \in inFlight : LinksRequestHandler(r)
    \/ \E r \in inFlight : EnqueueLinks(r)
    \/ Snapshot

NextReadme ==
    \/ Crawler
    \/ \E r \in inFlight : RequestHandler(r)
    \/ \E r \in inFlight : EnqueueLinks(r)
    \/ Snapshot

NextReadmeTwice == NextReadme \/ MainAgain

\* src/playwrightLinksCrawler.ts
Spec == Init /\ [][Next]_vars

\* The README crawler
SpecReadme == InitReadme /\ [][NextReadme]_vars

\* The README crawler, started twice
SpecReadmeTwice == InitReadme /\ [][NextReadmeTwice]_vars

\* ------------------------------------------------------------------------
\* Properties
\* ------------------------------------------------------------------------

\* The requestHandler calls whose loop over pageLinks has run.
Looped == {r \in inFlight : r.pc = "enqueueLinks"}

\* The links of the pages whose requestHandler loop has run in this state.
LoopedLinks == UNION {Range(pageLinks(r.url)) : r \in Looped}

\* A href the loop drops before the scope rules: one of the four skipped
\* schemes, or a string new URL() throws on.
UnsupportedScheme(href) ==
    \E scheme \in {"javascript:", "mailto:", "tel:", "data:"} :
        StartsWith(toLowerCase(href), scheme)

BadHref(href) == UnsupportedScheme(href) \/ ~ParseURL(href).ok

\* The URL a href stands for, without its fragment.
Stripped(href) == Href(ClearHash(ParseURL(href)))

IsAssetHref(href) == isLikelyBinaryAsset(ParseURL(href).pathname)

HasPrefixes(host) == host \in DOMAIN hostnameToPrefixes /\ hostnameToPrefixes[host] # <<>>

HasTokens(host) == host \in DOMAIN hostnameToScopeTokens /\ hostnameToScopeTokens[host] # {}

\* The pathname with a "/" at both ends.
SlashedPath(pathname) ==
    LET front == IF StartsWith(pathname, "/") THEN pathname ELSE "/" \o pathname
    IN  IF EndsWith(front, "/") THEN front ELSE front \o "/"

\* C1: every member of discoveredLinks has no fragment and uses scheme http
\* or https, in every reachable state.
C1_DiscoveredLinksHttpNoFragment ==
    \A i \in 1..Len(discoveredLinks) :
        /\ ~Includes(discoveredLinks[i], "#")
        /\ StartsWith(discoveredLinks[i], "http://") \/ StartsWith(discoveredLinks[i], "https://")

\* C2: transformRequestFunction rejects every URL whose path the asset
\* classifier (isLikelyBinaryAsset) marks, so no asset URL is accepted by a
\* requestHandler call or added to the request queue by enqueueLinks.
C2_NoAssetAcceptedOrEnqueued ==
    /\ \A r \in Looped : \A i \in 1..Len(r.accepted) : ~IsAssetHref(r.accepted[i])
    /\ \A url \in uniqueKeys \ Range(startUrls) : ~IsAssetHref(url)

\* C3: for every non-asset URL on a page whose links have been processed, the
\* loop has recorded it in discoveredLinks if and only if
\* transformRequestFunction accepted it.
C3_ExplicitPathAndFilterAgree ==
    \A r \in Looped : \A href \in Range(pageLinks(r.url)) :
        (ParseURL(href).ok /\ ~IsAssetHref(href)) =>
            (Stripped(href) \in Range(discoveredLinks) <=> Stripped(href) \in Range(r.accepted))

\* The scope rule of C4 for a parsed URL, written from the tables.
PageScopeRule(u) ==
    /\ ~sameDomainOnly \/ u.hostname \in allowedHostnames
    /\ \/ ~HasPrefixes(u.hostname)
       \/ \E p \in Range(hostnameToPrefixes[u.hostname]) : StartsWith(SlashedPath(u.pathname), p)

\* C4: a page (non-asset) URL is in scope, and recorded by the loop, if and
\* only if (sameDomainOnly is false or its hostname is allowed) and (its
\* hostname has no recorded prefixes or its normalized pathname starts with
\* one of them); with the seed https://example.com/dubai/ and sameDomainOnly,
\* /dubai/villas is in scope, /sharjah/villas and other.com/dubai/ are not.
C4_PageScopePolicy ==
    /\ \A href \in LoopedLinks :
        (~BadHref(href) /\ ~IsAssetHref(href)) =>
            /\ isInScope(ParseURL(href), sameDomainOnly, allowedHostnames, hostnameToPrefixes)
                    <=> PageScopeRule(ParseURL(href))
            /\ Stripped(href) \in Range(discoveredLinks) <=> PageScopeRule(ParseURL(href))
    /\ (startUrls = <<"https://example.com/dubai/">> /\ sameDomainOnly) =>
        /\ isInScope(ParseURL("https://example.com/dubai/villas"), sameDomainOnly,
                     allowedHostnames, hostnameToPrefixes)
        /\ ~isInScope(ParseURL("https://example.com/sharjah/villas"), sameDomainOnly,
                      allowedHostnames, hostnameToPrefixes)
        /\ ~isInScope(ParseURL("https://other.com/dubai/"), sameDomainOnly,
                      allowedHostnames, hostnameToPrefixes)
        /\ "https://example.com/dubai/" \in {r.url : r \in Looped} =>
            /\ "https://example.com/dubai/villas" \in Range(discoveredLinks)
            /\ "https://example.com/sharjah/villas" \notin Range(discoveredLinks)
            /\ "https://other.com/dubai/" \notin Range(discoveredLinks)

\* A state where C4's cases happen: a host seeded with two prefixes, a page
\* URL recorded through the second one, a URL of another host left out.
C4_Witness ==
    /\ startUrls = <<"https://example.com/dubai/", "https://example.com/sharjah/villas">>
    /\ sameDomainOnly
    /\ "https://example.com/dubai/" \in {r.url : r \in Looped}
    /\ "https://example.com/sharjah/villas" \in Range(discoveredLinks)
    /\ "https://example.com/dubai/villas" \in Range(discoveredLinks)
    /\ "https://other.com/dubai/" \notin Range(discoveredLinks)

\* The asset rule of C5 for a parsed URL, written from the tables.
AssetScopeRule(u) ==
    /\ ~sameDomainOnly \/ u.hostname \in allowedHostnames
    /\ \/ ~HasTokens(u.hostname)
       \/ \E t \in hostnameToScopeTokens[u.hostname] : Includes(toLowerCase(u.pathname), t)

Successors(pageUrl) ==
    IF pageUrl \in DOMAIN Site
    THEN {url \in Range(transformed(pageLinks(pageUrl))) : EnqueueStrategy(pageUrl, url)}
    ELSE {}

\* The requests of a crawl that is not cut short: the start urls and every
\* URL enqueued from a page of the crawl.
RECURSIVE CrawlClosure(_)
CrawlClosure(visited) ==
    LET next == visited \cup UNION {Successors(u) : u \in visited}
    IN  IF next = visited THEN visited ELSE CrawlClosure(next)

\* What the pages of such a crawl record.
FullCrawlLinks ==
    UNION {Range(requestHandlerLoop(pageLinks(u), <<>>)) :
            u \in CrawlClosure(Range(startUrls)) \cap DOMAIN Site}

Ascending(arr) == \A i \in 1..(Len(arr) - 1) : StringLess(arr[i], arr[i + 1])

\* C6 as claimed: whatever the interleaving and the ceilings, the second run
\* of the program ends with the sorted output of the first.
C6_TwoRunsSameOutput ==
    (runNumber = 2 /\ mainPc = "done") => linksArray = firstRun.linksArray

\* C6 as amended: a run that ends with the request queue drained (the request
\* ceiling did not cut the crawl short) outputs, in ascending order, what the
\* pages reachable from the seeds record, whatever the interleaving; so two
\* such runs end with the same output.
C6_DrainedRunsSameOutput ==
    /\ (mainPc = "done" /\ requestQueue = <<>>) =>
        /\ Range(linksArray) = FullCrawlLinks
        /\ Ascending(linksArray)
    /\ (runNumber = 2 /\ mainPc = "done" /\ requestQueue = <<>> /\ firstRun.requestQueue = <<>>) =>
        linksArray = firstRun.linksArray

\* Two drained runs of a crawl with two seeds and two workers, where the
\* callbacks of the second run recorded the links in another order than the
\* output has them.
C6_Witness ==
    /\ runNumber = 2
    /\ mainPc = "done"
    /\ requestQueue = <<>>
    /\ firstRun.requestQueue = <<>>
    /\ Len(startUrls) = 2
    /\ maxConcurrency = 2
    /\ handledRequestsCount >= 3
    /\ Len(linksArray) >= 4
    /\ discoveredLinks # linksArray

GoodHref(href) == ~BadHref(href)

\* C7: a malformed href or a href of a skipped scheme on a page changes
\* nothing: it is not in discoveredLinks, not accepted and not enqueued; the
\* loop goes on to the end of the page, and the links recorded and accepted
\* are those of the page without the bad hrefs.
C7_BadHrefsAreLocal ==
    \A r \in Looped :
        LET links == pageLinks(r.url)
            good  == SelectSeq(links, GoodHref)
        IN  /\ \A href \in Range(links) :
                    BadHref(href) =>
                        /\ href \notin Range(discoveredLinks)
                        /\ href \notin Range(r.accepted)
                        /\ href \notin uniqueKeys
            /\ linksRequestHandlerLoop(links, <<>>) = linksRequestHandlerLoop(good, <<>>)
            /\ Range(linksRequestHandlerLoop(good, <<>>)) \subseteq Range(discoveredLinks)
            /\ r.accepted = linksTransformed(good)

\* The page https://example.com/dubai/ has been processed: its anchors hold
\* javascript:void(0) and the malformed https://, and links after them are
\* recorded and accepted.
C7_Witness ==
    \E r \in Looped :
        /\ r.url = "https://example.com/dubai/"
        /\ \E i, j \in 1..Len(pageLinks(r.url)) :
            /\ i < j
            /\ ~ParseURL(pageLinks(r.url)[i]).ok
            /\ pageLinks(r.url)[j] \in Range(discoveredLinks)
            /\ pageLinks(r.url)[j] \in Range(r.accepted)
        /\ \E i \in 1..Len(pageLinks(r.url)) : UnsupportedScheme(pageLinks(r.url)[i])

AllPrefixes == UNION {Range(hostnameToPrefixes[host]) : host \in DOMAIN hostnameToPrefixes}

\* C8 as claimed: every recorded prefix is lower-cased and starts and ends
\* with "/", and the table stays as built from the seeds.
C8_PrefixesLowerCasedSlashedFixed ==
    /\ \A p \in AllPrefixes : p = toLowerCase(p) /\ StartsWith(p, "/") /\ EndsWith(p, "/")
    /\ hostnameToPrefixes = getHostnameToPathPrefixes(startUrls)

\* C8 as amended: every recorded prefix starts and ends with "/" (its letters
\* keep the case of the seed's pathname), and the table stays as built from
\* the seeds through every requestHandler and transformRequestFunction call.
C8_PrefixesSlashedFixed ==
    /\ \A p \in AllPrefixes : StartsWith(p, "/") /\ EndsWith(p, "/")
    /\ hostnameToPrefixes = getHostnameToPathPrefixes(startUrls)

\* Two seeds of one host, one whose pathname needed the trailing "/", after
\* two requestHandler calls have run their loop and their filter.
C8_Witness ==
    /\ hostnameToPrefixes = [h \in {"example.com"} |-> <<"/dubai/", "/sharjah/villas/">>]
    /\ handledRequestsCount >= 2
    /\ discoveredLinks # <<>>

\* C9: an asset URL that isInScope admits is also admitted by the asset rule,
\* so every asset inside the page scope found on a processed page is in
\* discoveredLinks.
C9_AssetsInPageScopeRecorded ==
    \A href \in LoopedLinks :
        (/\ ~BadHref(href)
         /\ IsAssetHref(href)
         /\ isInScope(ParseURL(href), sameDomainOnly, allowedHostnames, hostnameToPrefixes))
            => Stripped(href) \in Range(discoveredLinks)

\* C10: once main has read the snapshot, crawler.run has resolved, no
\* requestHandler call is running and discoveredLinks holds what the snapshot
\* holds.
C10_SnapshotAfterRunCompletion ==
    mainPc = "done" =>
        /\ crawlerState = "finished"
        /\ inFlight = {}
        /\ Range(linksArray) = Range(discoveredLinks)
        /\ Len(linksArray) = Len(discoveredLinks)

\* The snapshot of a run stopped by the request ceiling with requests still
\* queued, the ceiling having been reached while another call was running
\* (more requests were handled than the ceiling).
C10_Witness ==
    /\ mainPc = "done"
    /\ requestQueue # <<>>
    /\ handledRequestsCount > maxRequestsPerCrawl
    /\ linksArray # <<>>
====
